---- MODULE Spec2Model ----
(***************************************************************************)
(* The numeric conversion engine of src/lib.js: normalizeUnsignedFloat,    *)
(* big2str, bigxnum2big, bigxnum2num and big2num, with the JavaScript      *)
(* primitives they are built from (String methods, BigInt, Number), and    *)
(* the debounce wrapper of src/lib.js with the host's timers.              *)
(*                                                                         *)
(* A JavaScript string is a sequence of one-character strings.  A BigInt   *)
(* is its sequence of decimal digits, most significant first, without      *)
(* leading zeros (0n is <<0>>); arithmetic on it is digit arithmetic, so   *)
(* no value is limited by the width of a machine integer.  A Number that   *)
(* holds an integer is modelled by the same digit sequence: Number         *)
(* arithmetic is modelled exactly, without float64 rounding.  A signed      *)
(* integer is a record of its sign and its magnitude.                      *)
(***************************************************************************)
EXTENDS Integers, Sequences, FiniteSets, TLC

VARIABLES op, amount, negative, decimals, text, flag, out,
          timeout, timers, lastId, log

\* the call in progress: its arguments and its result
callVars == <<op, amount, negative, decimals, text, flag, out>>

\* one debounced function and the host's timers
timerVars == <<timeout, timers, lastId, log>>

vars == <<op, amount, negative, decimals, text, flag, out, timeout, timers, lastId, log>>

(***************************************************************************)
(* Strings                                                                 *)
(***************************************************************************)
DigitChars == <<"0", "1", "2", "3", "4", "5", "6", "7", "8", "9">>

IsDigitChar(c) == \E i \in 1..10 : DigitChars[i] = c

DigitOf(c) == (CHOOSE i \in 1..10 : DigitChars[i] = c) - 1

CharOf(d) == DigitChars[d + 1]

\* s.repeat(n) for a one-character string c
Repeat(c, n) == [i \in 1..n |-> c]

\* s.slice(from, to) with 0-based, end-exclusive indices 0 <= from, to
Slice(s, from, to) ==
  LET t == IF to > Len(s) THEN Len(s) ELSE to
  IN  IF from >= t THEN <<>> ELSE SubSeq(s, from + 1, t)

\* s.slice(from)
SliceFrom(s, from) == Slice(s, from, Len(s))

\* s.indexOf(c): 0-based index of the first c, or -1
IndexOf(s, c) ==
  IF \E i \in 1..Len(s) : s[i] = c
  THEN (CHOOSE i \in 1..Len(s) : s[i] = c /\ \A j \in 1..(i - 1) : s[j] # c) - 1
  ELSE -1

Includes(s, c) == IndexOf(s, c) # -1

StartsWith(s, c) == Len(s) > 0 /\ s[1] = c

\* s.padStart(n, c) for a one-character pad c
PadStart(s, n, c) == IF Len(s) >= n THEN s ELSE Repeat(c, n - Len(s)) \o s

\* s.replace(/[^0-9.]/g, '')
KeepDigitsAndDots(s) == SelectSeq(s, LAMBDA c : IsDigitChar(c) \/ c = ".")

\* s.replace(/\./g, '')
RemoveDots(s) == SelectSeq(s, LAMBDA c : c # ".")

\* s.match(/^0+$/)
MatchesAllZeros(s) == Len(s) > 0 /\ \A i \in 1..Len(s) : s[i] = "0"

\* number of leading characters of s equal to c
LeadingRun(s, c) ==
  IF \A i \in 1..Len(s) : s[i] = c
  THEN Len(s)
  ELSE (CHOOSE i \in 1..Len(s) : s[i] # c /\ \A j \in 1..(i - 1) : s[j] = c) - 1

\* number of trailing characters of s equal to c
TrailingRun(s, c) ==
  IF \A i \in 1..Len(s) : s[i] = c
  THEN Len(s)
  ELSE Len(s) - (CHOOSE i \in 1..Len(s) : s[i] # c /\ \A j \in (i + 1)..Len(s) : s[j] = c)

\* s.replace(/^0+/, '')
StripLeadingZeros(s) == SliceFrom(s, LeadingRun(s, "0"))

\* s.trim()
Trim(s) ==
  LET a == LeadingRun(s, " ")
      b == TrailingRun(s, " ")
  IN  IF a = Len(s) THEN <<>> ELSE SubSeq(s, a + 1, Len(s) - b)

\* variant of TrimDotZeros: s.replace(/\.?0*$/, ''), the trailing zeros are
\* removed also where no '.' stands before them
TrimDotZeros_AnyZeros(s) ==
  LET z == TrailingRun(s, "0")
  IN  IF z < Len(s) /\ s[Len(s) - z] = "." THEN SubSeq(s, 1, Len(s) - z - 1)
      ELSE SubSeq(s, 1, Len(s) - z)

\* s.replace(/\.0*$/, ''): the leftmost '.' followed only by zeros up to the
\* end of the string is removed together with those zeros
TrimDotZeros(s) ==
  LET z == TrailingRun(s, "0")
  IN  IF z < Len(s) /\ s[Len(s) - z] = "." THEN SubSeq(s, 1, Len(s) - z - 1) ELSE s

\* s.replace('.', ''): only the first '.' is removed
RemoveFirstDot(s) ==
  LET p == IndexOf(s, ".")
  IN  IF p = -1 THEN s ELSE Slice(s, 0, p) \o SliceFrom(s, p + 1)

\* s.endsWith('.')
EndsInDot(s) == Len(s) > 0 /\ s[Len(s)] = "."

\* s.split('.') of a string with exactly one '.': <<before, after>>
SplitDot(s) ==
  LET p == IndexOf(s, ".")
  IN  <<Slice(s, 0, p), SliceFrom(s, p + 1)>>

(***************************************************************************)
(* BigInt: digit sequences, most significant digit first                   *)
(***************************************************************************)
Zero == <<0>>

\* canonical form: no leading zero digits, at least one digit
Canon(ds) ==
  LET z == IF \A i \in 1..Len(ds) : ds[i] = 0
           THEN Len(ds)
           ELSE (CHOOSE i \in 1..Len(ds) : ds[i] # 0 /\ \A j \in 1..(i - 1) : ds[j] = 0) - 1
  IN  IF z = Len(ds) THEN Zero ELSE SubSeq(ds, z + 1, Len(ds))

\* digit of a at decimal position p (0 = units)
DigitAt(a, p) == IF p < Len(a) THEN a[Len(a) - p] ELSE 0

\* a <= b for canonical digit sequences
BigLeq(a, b) ==
  \/ Len(a) < Len(b)
  \/ /\ Len(a) = Len(b)
     /\ \/ a = b
        \/ \E i \in 1..Len(a) :
             /\ a[i] < b[i]
             /\ \A j \in 1..(i - 1) : a[j] = b[j]

BigLess(a, b) == BigLeq(a, b) /\ a # b

(***************************************************************************)
(* BigInt arithmetic works on limbs: groups of four decimal digits, least  *)
(* significant limb first, each limb a number in 0..9999.  Sums and        *)
(* products of limbs stay far below 2^31.                                  *)
(***************************************************************************)
ToLimbs(a) ==
  [j \in 1..((Len(a) + 3) \div 4) |->
     DigitAt(a, 4 * (j - 1))
       + 10 * DigitAt(a, 4 * (j - 1) + 1)
       + 100 * DigitAt(a, 4 * (j - 1) + 2)
       + 1000 * DigitAt(a, 4 * (j - 1) + 3)]

SmallPow10(e) == CASE e = 0 -> 1 [] e = 1 -> 10 [] e = 2 -> 100 [] e = 3 -> 1000

FromLimbs(x) ==
  Canon([i \in 1..(4 * Len(x)) |->
           LET p == 4 * Len(x) - i
           IN  (x[(p \div 4) + 1] \div SmallPow10(p % 4)) % 10])

LimbAt(x, j) == IF j >= 1 /\ j <= Len(x) THEN x[j] ELSE 0

RECURSIVE CarryInto(_, _)
\* the carry into limb k of the coefficient sequence c
CarryInto(c, k) ==
  IF k <= 1 THEN 0 ELSE (LimbAt(c, k - 1) + CarryInto(c, k - 1)) \div 10000

\* coefficients (each >= 0) to limbs
Normalise(c) == [k \in 1..(Len(c) + 1) |-> (LimbAt(c, k) + CarryInto(c, k)) % 10000]

LimbAdd(x, y) ==
  Normalise([k \in 1..(IF Len(x) >= Len(y) THEN Len(x) ELSE Len(y)) |->
               LimbAt(x, k) + LimbAt(y, k)])

RECURSIVE BorrowInto(_, _, _)
\* the borrow into limb k of x - y
BorrowInto(x, y, k) ==
  IF k <= 1
  THEN 0
  ELSE IF LimbAt(x, k - 1) - LimbAt(y, k - 1) - BorrowInto(x, y, k - 1) < 0 THEN 1 ELSE 0

\* x - y for x >= y
LimbSub(x, y) ==
  [k \in 1..Len(x) |-> (x[k] - LimbAt(y, k) - BorrowInto(x, y, k) + 10000) % 10000]

RECURSIVE ConvSum(_, _, _, _)
\* sum of x[i] * y[k + 1 - i] over i from i0 up
ConvSum(x, y, k, i0) ==
  IF i0 > Len(x) \/ i0 > k
  THEN 0
  ELSE x[i0] * LimbAt(y, k + 1 - i0) + ConvSum(x, y, k, i0 + 1)

LimbMul(x, y) ==
  IF Len(x) = 0 \/ Len(y) = 0
  THEN <<>>
  ELSE Normalise([k \in 1..(Len(x) + Len(y) - 1) |-> ConvSum(x, y, k, 1)])

\* x * n for a number n in 0..9999
LimbMulSmall(x, n) == Normalise([k \in 1..Len(x) |-> x[k] * n])

\* the number of limbs of x up to its most significant non-zero limb
LimbLen(x) ==
  IF \A k \in 1..Len(x) : x[k] = 0
  THEN 0
  ELSE CHOOSE k \in 1..Len(x) : x[k] # 0 /\ \A j \in (k + 1)..Len(x) : x[j] = 0

\* x <= y
LimbLeq(x, y) ==
  \/ LimbLen(x) < LimbLen(y)
  \/ /\ LimbLen(x) = LimbLen(y)
     /\ \/ \A k \in 1..LimbLen(x) : x[k] = y[k]
        \/ \E k \in 1..LimbLen(x) :
             /\ x[k] < y[k]
             /\ \A j \in (k + 1)..LimbLen(x) : x[j] = y[j]

\* the largest d in 0..9 with y * (base + d * unit) <= r
QuotStep(r, y, base, unit) ==
  Cardinality({d \in 1..9 : LimbLeq(LimbMulSmall(y, base + d * unit), r)})

\* the largest e in 0..9999 with y * e <= r, for r < y * 10000
QuotLimb(r, y) ==
  IF ~LimbLeq(y, r)
  THEN 0
  ELSE LET e3 == 1000 * QuotStep(r, y, 0, 1000)
           e2 == e3 + 100 * QuotStep(r, y, e3, 100)
           e1 == e2 + 10 * QuotStep(r, y, e2, 10)
       IN  e1 + QuotStep(r, y, e1, 1)

RECURSIVE LimbDivFrom(_, _, _, _, _)
\* long division of x by y (y > 0) from limb j downward: rem is the
\* remainder of the limbs above j, q their quotient
LimbDivFrom(x, y, j, rem, q) ==
  IF j = 0
  THEN q
  ELSE LET r == <<x[j]>> \o rem
           e == QuotLimb(r, y)
           next == SubSeq(LimbSub(r, LimbMulSmall(y, e)), 1, LimbLen(y))
       IN  IF e = 0
           THEN LimbDivFrom(x, y, j - 1, SubSeq(r, 1, LimbLen(r)), <<0>> \o q)
           ELSE LimbDivFrom(x, y, j - 1, SubSeq(next, 1, LimbLen(next)), <<e>> \o q)

\* a + b
BigAdd(a, b) == FromLimbs(LimbAdd(ToLimbs(a), ToLimbs(b)))

\* a * b
BigMul(a, b) == FromLimbs(LimbMul(ToLimbs(a), ToLimbs(b)))

\* a / b on BigInt, b > 0: the quotient, the remainder is dropped
BigDiv(a, b) == FromLimbs(LimbDivFrom(ToLimbs(a), ToLimbs(b), Len(ToLimbs(a)), <<>>, <<>>))

\* 10 ** k and Math.pow(10, k) as an integer (exact in float64 for k <= 22)
Pow10(k) == <<1>> \o [i \in 1..k |-> 0]

\* BigInt.prototype.toString()
BigToString(a) == [i \in 1..Len(a) |-> CharOf(a[i])]

\* Is the string a decimal StringNumericLiteral BigInt() accepts: optional
\* whitespace around digits only (the empty literal is accepted as 0n)
IsBigIntLiteral(s) == \A i \in 1..Len(Trim(s)) : IsDigitChar(Trim(s)[i])

\* BigInt(s) for a string BigInt() accepts
BigIntOf(s) ==
  LET t == Trim(s)
  IN  IF t = <<>> THEN Zero ELSE Canon([i \in 1..Len(t) |-> DigitOf(t[i])])

\* Number(s) for a string of digits
NumberOf(s) == BigIntOf(s)

(***************************************************************************)
(* Results of a call: a returned value or a thrown exception               *)
(***************************************************************************)
Returned(v) == [ok |-> TRUE, val |-> v, error |-> "none"]

Thrown(e) == [ok |-> FALSE, val |-> <<>>, error |-> e]

(***************************************************************************)
(* normalizeUnsignedFloat                                                  *)
(***************************************************************************)
MaxWholeDigits == 9

MaxFracDigits == 18

\* variant of IsAllZeros: the test is /^0*$/
IsAllZeros_OrEmpty(normalized) == \A i \in 1..Len(normalized) : normalized[i] = "0"

\* variant of IsAllZeros: the test is /^[0.]+$/
IsAllZeros_OrDots(normalized) ==
  /\ Len(normalized) > 0
  /\ \A i \in 1..Len(normalized) : normalized[i] = "0" \/ normalized[i] = "."

\* normalized.match(/^0+$/)
IsAllZeros(normalized) == MatchesAllZeros(normalized)

\* variant of KeepFirstDot: every dot is kept
KeepFirstDot_KeepAll(normalized) == normalized

\* keep only the first dot
KeepFirstDot(normalized) ==
  LET firstDot == IndexOf(normalized, ".")
  IN  IF firstDot # -1
      THEN Slice(normalized, 0, firstDot + 1) \o RemoveDots(SliceFrom(normalized, firstDot + 1))
      ELSE normalized

\* if the first character is a dot, add a 0 in front
AddLeadingZero(normalized) ==
  IF StartsWith(normalized, ".") THEN <<"0">> \o normalized ELSE normalized

\* variant of LimitDigits: a trailing dot is removed after the limits
LimitDigits_StripTrailingDot(normalized) ==
  LET limited ==
        IF Includes(normalized, ".")
        THEN
          LET wholePart   == SplitDot(normalized)[1]
              decimalPart == SplitDot(normalized)[2]
              afterWhole  == IF Len(wholePart) > MaxWholeDigits
                             THEN Slice(wholePart, 0, MaxWholeDigits) \o <<".">> \o decimalPart
                             ELSE normalized
          IN  IF decimalPart # <<>> /\ Len(decimalPart) > MaxFracDigits
              THEN wholePart \o <<".">> \o Slice(decimalPart, 0, MaxFracDigits)
              ELSE afterWhole
        ELSE
          IF Len(normalized) > MaxWholeDigits
          THEN Slice(normalized, 0, MaxWholeDigits)
          ELSE normalized
  IN  IF EndsInDot(limited) THEN SubSeq(limited, 1, Len(limited) - 1) ELSE limited

\* the 9-digit limit before the decimal point and the 18-digit limit after it
LimitDigits(normalized) ==
  IF Includes(normalized, ".")
  THEN
    LET wholePart   == SplitDot(normalized)[1]
        decimalPart == SplitDot(normalized)[2]
        afterWhole  == IF Len(wholePart) > MaxWholeDigits
                       THEN Slice(wholePart, 0, MaxWholeDigits) \o <<".">> \o decimalPart
                       ELSE normalized
    IN  IF decimalPart # <<>> /\ Len(decimalPart) > MaxFracDigits
        THEN wholePart \o <<".">> \o Slice(decimalPart, 0, MaxFracDigits)
        ELSE afterWhole
  ELSE
    IF Len(normalized) > MaxWholeDigits
    THEN Slice(normalized, 0, MaxWholeDigits)
    ELSE normalized

normalizeUnsignedFloat(value) ==
  IF value = <<>>
  THEN <<>>
  ELSE
    LET kept == KeepDigitsAndDots(value)
    IN  IF IsAllZeros(kept)
        THEN <<"0">>
        ELSE LimitDigits(AddLeadingZero(KeepFirstDot(StripLeadingZeros(kept))))

(***************************************************************************)
(* big2str and the inverse operation parse                                 *)
(***************************************************************************)
\* variant of big2str: no "0" before the point of an amount below 10^decimals
big2str_NoZero(amt, dec) ==
  LET amountString   == PadStart(BigToString(amt), dec, "0")
      insertPosition == Len(amountString) - dec
  IN  Slice(amountString, 0, insertPosition) \o <<".">> \o SliceFrom(amountString, insertPosition)

\* variant of big2str: no padStart
big2str_NoPad(amt, dec) ==
  LET amountString   == BigToString(amt)
      insertPosition == IF Len(amountString) > dec THEN Len(amountString) - dec ELSE 0
  IN  IF insertPosition = 0
      THEN <<"0", ".">> \o amountString
      ELSE Slice(amountString, 0, insertPosition) \o <<".">> \o SliceFrom(amountString, insertPosition)

big2str(amt, dec) ==
  LET amountString   == PadStart(BigToString(amt), dec, "0")
      insertPosition == Len(amountString) - dec
  IN  IF insertPosition = 0
      THEN <<"0", ".">> \o amountString
      ELSE Slice(amountString, 0, insertPosition) \o <<".">> \o SliceFrom(amountString, insertPosition)

AllDigits(s) == \A i \in 1..Len(s) : IsDigitChar(s[i])

\* ^(0|[1-9][0-9]{0,8})(\.[0-9]{1,18})?$
IsDecimalString(s) ==
  LET p     == IndexOf(s, ".")
      whole == IF p = -1 THEN s ELSE Slice(s, 0, p)
      frac  == IF p = -1 THEN <<>> ELSE SliceFrom(s, p + 1)
  IN  /\ AllDigits(whole)
      /\ Len(whole) >= 1
      /\ Len(whole) <= MaxWholeDigits
      /\ (whole[1] = "0" => Len(whole) = 1)
      /\ p # -1 => /\ AllDigits(frac)
                   /\ Len(frac) >= 1
                   /\ Len(frac) <= MaxFracDigits

parse(s, dec) ==
  IF ~IsDecimalString(s)
  THEN Thrown("InvalidFormat")
  ELSE
    LET p     == IndexOf(s, ".")
        whole == IF p = -1 THEN s ELSE Slice(s, 0, p)
        frac  == IF p = -1 THEN <<>> ELSE SliceFrom(s, p + 1)
    IN  IF Len(frac) > dec
        THEN Thrown("PrecisionOverflow")
        ELSE Returned(BigIntOf(whole \o frac \o Repeat("0", dec - Len(frac))))

(***************************************************************************)
(* bigxnum2big                                                             *)
(***************************************************************************)
\* variant of bigxnum2big: the decimal point is counted among the decimal places
bigxnum2big_OffByOne(bigIntNum, stringNum) ==
  LET trimmed         == TrimDotZeros(Trim(stringNum))
      decimalPosition == IndexOf(trimmed, ".")
  IN  IF decimalPosition = -1
      THEN IF IsBigIntLiteral(trimmed)
           THEN Returned(BigMul(BigIntOf(trimmed), bigIntNum))
           ELSE Thrown("SyntaxError")
      ELSE
        LET decimalPlaces        == Len(trimmed) - decimalPosition
            numberWithoutDecimal == RemoveFirstDot(trimmed)
        IN  IF IsBigIntLiteral(numberWithoutDecimal)
            THEN Returned(BigDiv(BigMul(BigIntOf(numberWithoutDecimal), bigIntNum),
                                 Pow10(decimalPlaces)))
            ELSE Thrown("SyntaxError")

bigxnum2big(bigIntNum, stringNum) ==
  LET trimmed         == TrimDotZeros(Trim(stringNum))
      decimalPosition == IndexOf(trimmed, ".")
  IN  IF decimalPosition = -1
      THEN IF IsBigIntLiteral(trimmed)
           THEN Returned(BigMul(BigIntOf(trimmed), bigIntNum))
           ELSE Thrown("SyntaxError")
      ELSE
        LET decimalPlaces        == Len(trimmed) - decimalPosition - 1
            numberWithoutDecimal == RemoveFirstDot(trimmed)
        IN  IF IsBigIntLiteral(numberWithoutDecimal)
            THEN Returned(BigDiv(BigMul(BigIntOf(numberWithoutDecimal), bigIntNum),
                                 Pow10(decimalPlaces)))
            ELSE Thrown("SyntaxError")

(***************************************************************************)
(* bigxnum2num                                                             *)
(***************************************************************************)
chunkSize == 15

Max(a, b) == IF a >= b THEN a ELSE b

RECURSIVE ChunksFrom(_, _, _)
\* the loop  for (i = length; i > 0; i -= chunkSize) chunks.unshift(...)
ChunksFrom(str, i, chunks) ==
  IF i <= 0
  THEN chunks
  ELSE ChunksFrom(str, i - chunkSize,
                  <<NumberOf(Slice(str, Max(0, i - chunkSize), i))>> \o chunks)

ChunksOf(bigIntNum) == ChunksFrom(BigToString(bigIntNum), Len(BigToString(bigIntNum)), <<>>)

\* the multiplier of chunks[i] (i counted from 0)
Multiplier(i) == Pow10(chunkSize * i)

RECURSIVE SumChunks(_, _, _, _)
\* the loop  for (i = 0; i < chunks.length; i++) result += chunks[i] * floatNum * multiplier
SumChunks(chunks, floatNum, i, result) ==
  IF i >= Len(chunks)
  THEN result
  ELSE SumChunks(chunks, floatNum, i + 1,
                 BigAdd(result, BigMul(BigMul(chunks[i + 1], floatNum), Multiplier(i))))

bigxnum2num(bigIntNum, floatNum) ==
  IF floatNum = Zero
  THEN Zero
  ELSE IF bigIntNum = Zero
       THEN Zero
       ELSE SumChunks(ChunksOf(bigIntNum), floatNum, 0, Zero)

(***************************************************************************)
(* big2num                                                                 *)
(***************************************************************************)
\* a signed integer; zero has no sign
Signed(neg, abs) == [neg |-> neg /\ abs # Zero, abs |-> abs]

\* unary minus
Negate(x) == Signed(~x.neg, x.abs)

\* variant of big2num: the leading digits are not scaled back to the length
big2num_NoScale(bigIntNum) ==
  IF bigIntNum = Signed(FALSE, Zero)
  THEN Signed(FALSE, Zero)
  ELSE LET isNegative == bigIntNum.neg
           absValue   == IF isNegative THEN Negate(bigIntNum) ELSE bigIntNum
           str        == BigToString(absValue.abs)
           length     == Len(str)
       IN  IF length <= 15
           THEN IF isNegative
                THEN Negate(Signed(FALSE, NumberOf(str)))
                ELSE Signed(FALSE, NumberOf(str))
           ELSE LET firstFifteen == Slice(str, 0, 15)
                    result       == Signed(FALSE, NumberOf(firstFifteen))
                IN  IF isNegative THEN Negate(result) ELSE result

\* variant of big2num: the long branch returns the magnitude
big2num_DropSign(bigIntNum) ==
  IF bigIntNum = Signed(FALSE, Zero)
  THEN Signed(FALSE, Zero)
  ELSE LET isNegative == bigIntNum.neg
           absValue   == IF isNegative THEN Negate(bigIntNum) ELSE bigIntNum
           str        == BigToString(absValue.abs)
           length     == Len(str)
       IN  IF length <= 15
           THEN IF isNegative
                THEN Negate(Signed(FALSE, NumberOf(str)))
                ELSE Signed(FALSE, NumberOf(str))
           ELSE LET firstFifteen    == Slice(str, 0, 15)
                    remainingDigits == length - 15
                IN  Signed(FALSE, BigMul(NumberOf(firstFifteen), Pow10(remainingDigits)))

big2num(bigIntNum) ==
  IF bigIntNum = Signed(FALSE, Zero)
  THEN Signed(FALSE, Zero)
  ELSE LET isNegative == bigIntNum.neg
           absValue   == IF isNegative THEN Negate(bigIntNum) ELSE bigIntNum
           str        == BigToString(absValue.abs)
           length     == Len(str)
       IN  IF length <= 15
           THEN IF isNegative
                THEN Negate(Signed(FALSE, NumberOf(str)))
                ELSE Signed(FALSE, NumberOf(str))
           ELSE LET firstFifteen    == Slice(str, 0, 15)
                    remainingDigits == length - 15
                    result          == Signed(FALSE, BigMul(NumberOf(firstFifteen),
                                                            Pow10(remainingDigits)))
                IN  IF isNegative THEN Negate(result) ELSE result

(***************************************************************************)
(* Inputs of the calls                                                     *)
(***************************************************************************)
MaxDecimals == 18

MaxFill == 28

MaxMulFill == 2

MaxFactorLen == 3

MaxFracFill == 18

MaxRawLen == 4

MaxIntRun == 11

MaxFracRun == 20

\* sequences over the set S of length at most n
RECURSIVE SeqsUpTo(_, _)
SeqsUpTo(S, n) ==
  IF n = 0
  THEN {<<>>}
  ELSE LET shorter == SeqsUpTo(S, n - 1)
       IN  shorter \cup {s \o <<c>> : s \in shorter, c \in S}

AmountHeads == {<<1>>, <<9>>, <<1, 2>>, <<5, 0>>}

FillDigits == {0, 3, 9}

\* a head followed by a run of at most n copies of one digit
HeadAndFill(heads, fills, n) ==
  {h \o [i \in 1..k |-> c] : h \in heads, c \in fills, k \in 0..n}

\* amounts of 1 to MaxFill + 2 digits
Amounts ==
  {Zero, <<5>>, <<1, 2, 3>>, <<1, 2, 3, 4>>} \cup HeadAndFill(AmountHeads, FillDigits, MaxFill)

\* the last digits of a long amount
AmountTails == {<<>>, <<1>>, <<0, 7>>}

\* signed amounts of 1 to MaxFill + 4 digits: amounts that share their head
\* and their length differ in their last digits
SignedAmounts ==
  {Signed(neg, a \o t) : neg \in BOOLEAN, a \in Amounts \ {Zero}, t \in AmountTails}
    \cup {Signed(FALSE, Zero)}

\* amounts of 1 to MaxMulFill + 2 digits
MulAmounts == {Zero} \cup HeadAndFill({<<1>>, <<3>>, <<1, 2>>}, {0, 9}, MaxMulFill)

\* factors: every short string over the alphabet, and decimal literals with
\* up to MaxFracFill + 1 fractional digits
FactorChars == {"0", "5", ".", "a", " "}

LongFactors ==
  {h \o <<".">> \o Repeat(c, k) \o t :
     h \in {<<"0">>, <<"3">>, <<"1", "2">>},
     c \in {"0", "3", "9"},
     k \in 0..MaxFracFill,
     t \in {<<>>, <<"1">>}}

Factors == SeqsUpTo(FactorChars, MaxFactorLen) \cup LongFactors

\* Number factors of bigxnum2num, as integers
NumFactors == {Zero, <<1>>, <<2>>, <<7>>}

\* raw texts: every short string over the alphabet, and long runs of digits
\* around dots
RawChars == {"0", "1", ".", "a", "-"}

LongRaws ==
  {z \o Repeat("1", n) \o d \o Repeat(c, m) \o t :
     z \in {<<>>, <<"0">>},
     n \in 0..MaxIntRun,
     d \in {<<>>, <<".">>},
     c \in {"0", "7"},
     m \in 0..MaxFracRun,
     t \in {<<>>, <<".", "5">>}}

RawTexts == SeqsUpTo(RawChars, MaxRawLen) \cup LongRaws

(***************************************************************************)
(* The calls                                                               *)
(***************************************************************************)
Init ==
  /\ op = "idle"
  /\ amount = Zero
  /\ negative = FALSE
  /\ decimals = 0
  /\ text = <<>>
  /\ flag = FALSE
  /\ out = Returned(<<>>)
  /\ timeout = 0
  /\ timers = {}
  /\ lastId = 0
  /\ log = <<>>

\* normalizeUnsignedFloat(value, strictFinal): the function declares one
\* parameter, a second argument is dropped by the call
Normalize ==
  /\ op = "idle"
  /\ \E value \in RawTexts, strictFinal \in BOOLEAN :
       /\ text' = value
       /\ flag' = strictFinal
       /\ out' = Returned(normalizeUnsignedFloat(value))
  /\ op' = "normalize"
  /\ UNCHANGED <<amount, negative, decimals>>
  /\ UNCHANGED timerVars

\* normalizeUnsignedFloat of the text normalizeUnsignedFloat returned, as on
\* the next input event of the same field
Renormalize ==
  /\ op = "normalize"
  /\ text' = out.val
  /\ out' = Returned(normalizeUnsignedFloat(out.val))
  /\ op' = "renormalize"
  /\ UNCHANGED <<amount, negative, decimals, flag>>
  /\ UNCHANGED timerVars

\* big2str(amount, decimals)
Format ==
  /\ op = "idle"
  /\ \E a \in Amounts, d \in 0..MaxDecimals :
       /\ amount' = a
       /\ decimals' = d
       /\ out' = Returned(big2str(a, d))
  /\ op' = "big2str"
  /\ UNCHANGED <<negative, text, flag>>
  /\ UNCHANGED timerVars

\* parse(text, decimals) of the text big2str returned
Parse ==
  /\ op = "big2str"
  /\ text' = out.val
  /\ out' = parse(out.val, decimals)
  /\ op' = "parse"
  /\ UNCHANGED <<amount, negative, decimals, flag>>
  /\ UNCHANGED timerVars

\* bigxnum2big(amount, factor)
Multiply ==
  /\ op = "idle"
  /\ \E a \in MulAmounts, factor \in Factors :
       /\ amount' = a
       /\ text' = factor
       /\ out' = bigxnum2big(a, factor)
  /\ op' = "bigxnum2big"
  /\ UNCHANGED <<negative, decimals, flag>>
  /\ UNCHANGED timerVars

\* bigxnum2num(amount, factor); the Number factor is kept in text as its digits
Approximate ==
  /\ op = "idle"
  /\ \E a \in Amounts, f \in NumFactors :
       /\ amount' = a
       /\ text' = BigToString(f)
       /\ out' = Returned(bigxnum2num(a, f))
  /\ op' = "bigxnum2num"
  /\ UNCHANGED <<negative, decimals, flag>>
  /\ UNCHANGED timerVars

\* big2num(amount), the amount with its sign
Magnitude ==
  /\ op = "idle"
  /\ \E a \in SignedAmounts :
       /\ amount' = a.abs
       /\ negative' = a.neg
       /\ out' = Returned(big2num(a))
  /\ op' = "big2num"
  /\ UNCHANGED <<decimals, text, flag>>
  /\ UNCHANGED timerVars

\* the caller takes the result
Return ==
  /\ op # "idle"
  /\ op' = "idle"
  /\ amount' = Zero
  /\ negative' = FALSE
  /\ decimals' = 0
  /\ text' = <<>>
  /\ flag' = FALSE
  /\ out' = Returned(<<>>)
  /\ UNCHANGED timerVars

Next == Normalize \/ Renormalize \/ Format \/ Parse \/ Multiply \/ Approximate \/ Magnitude \/ Return

Spec == Init /\ [][Next]_vars

(***************************************************************************)
(* debounce                                                                *)
(*                                                                         *)
(* One function returned by debounce(func, waitFn), with waitFn a          *)
(* function.  timeout is the closure's variable: 0 while it is undefined,  *)
(* then the id of the last timer set.  timers are the timers pending in    *)
(* the host, each with the arguments its callback has captured and the     *)
(* time left until it is due; lastId is the last id the host has given     *)
(* out.  log records the calls of the debounced function and of func, in   *)
(* order; a call is early when it is made before the wait of the call      *)
(* before it has elapsed.                                                  *)
(***************************************************************************)
MaxCalls == 3

MaxWait == 1

\* the arguments of a call: the first one decides the wait
CallArgs == {<<x, y>> : x \in 0..MaxWait, y \in {"a", "b"}}

\* waitFn(args[0]), in units of time
waitFn(x) == x

\* variant of ClearTimeout: the timer is left pending
ClearTimeout_Noop(pending, id) == pending

\* clearTimeout(id): the pending timer of that id is cancelled; an id that is
\* undefined or no longer pending cancels nothing
ClearTimeout(pending, id) == {t \in pending : t.id # id}

\* setTimeout(later, wait) returning id
SetTimeout(pending, id, args, wait) ==
  pending \cup {[id |-> id, args |-> args, delay |-> wait]}

Calls == SelectSeq(log, LAMBDA ev : ev.kind = "call")

Runs == SelectSeq(log, LAMBDA ev : ev.kind = "run")

\* the calls that start a run of calls: those made after the wait of the
\* call before them has elapsed, and the first one
RunsOfCalls == SelectSeq(log, LAMBDA ev : ev.kind = "call" /\ ~ev.early)

\* a call of the debounced function
executedFunction ==
  /\ Len(Calls) < MaxCalls
  /\ \E args \in CallArgs :
       LET wait == waitFn(args[1])
       IN  /\ timers' = SetTimeout(ClearTimeout(timers, timeout), lastId + 1, args, wait)
           /\ timeout' = lastId + 1
           /\ lastId' = lastId + 1
           /\ log' = Append(log, [kind |-> "call", args |-> args,
                                  early |-> \E t \in timers : t.id = timeout /\ t.delay > 0])
  /\ UNCHANGED callVars

\* one unit of time passes
Tick ==
  /\ \E t \in timers : t.delay > 0
  /\ timers' = {[t EXCEPT !.delay = IF @ > 0 THEN @ - 1 ELSE 0] : t \in timers}
  /\ UNCHANGED <<timeout, lastId, log>>
  /\ UNCHANGED callVars

\* the host runs the callback of a timer that is due
later ==
  /\ \E t \in timers :
       /\ t.delay = 0
       /\ timers' = ClearTimeout(timers \ {t}, timeout)
       /\ log' = Append(log, [kind |-> "run", args |-> t.args, early |-> FALSE])
  /\ UNCHANGED <<timeout, lastId>>
  /\ UNCHANGED callVars

NextDebounce == executedFunction \/ Tick \/ later

SpecDebounce == Init /\ [][NextDebounce]_vars

(***************************************************************************)
(* Properties                                                              *)
(***************************************************************************)
DotCount(s) == Len(SelectSeq(s, LAMBDA c : c = "."))

\* the text before the first '.', or the whole text
IntPart(s) == IF IndexOf(s, ".") = -1 THEN s ELSE Slice(s, 0, IndexOf(s, "."))

\* the text after the first '.'
FracPart(s) == IF IndexOf(s, ".") = -1 THEN <<>> ELSE SliceFrom(s, IndexOf(s, ".") + 1)

IsPrefix(x, y) == Len(x) <= Len(y) /\ x = SubSeq(y, 1, Len(x))

\* C1 as stated: for every amount of up to 30 digits and every d in 0..18,
\* parse(big2str(a, d), d) succeeds and returns exactly a.
C1_RoundTripAll ==
  op = "parse" => out.ok /\ out.val = amount

\* C1 amended: parse(big2str(a, d), d) returns exactly a when 1 <= d <= 18
\* and a < 10^(9 + d); for d = 0 (trailing bare point) and for a >= 10^(9 + d)
\* (more than 9 integer digits) the text big2str returns is outside the
\* DecimalString grammar and parse fails with InvalidFormat.
C1_RoundTripInGrammar ==
  op = "parse" =>
    IF decimals >= 1 /\ decimals <= MaxFracDigits /\ Len(amount) <= MaxWholeDigits + decimals
    THEN out = Returned(amount)
    ELSE ~out.ok /\ out.error = "InvalidFormat"

\* C1 witness: a 27-digit amount went through big2str and parse at d = 18
C1_Witness ==
  op = "parse" /\ decimals = 18 /\ Len(amount) = 27 /\ out = Returned(amount)

\* the factor's integer literal F: the factor with its point removed
FactorLiteral(s) == BigIntOf(RemoveDots(s))

\* the factor's count k of fractional digits
FactorPlaces(s) == Len(FracPart(s))

\* C2: for every non-negative amount and every well-formed factor (integer
\* literal F, k fractional digits, 0 <= k <= 18), bigxnum2big returns exactly
\* floor(amount * F / 10^k): result * 10^k <= amount * F < (result + 1) * 10^k.
C2_MultiplyFloors ==
  (op = "bigxnum2big" /\ IsDecimalString(text)) =>
    /\ out.ok
    /\ LET product == BigMul(amount, FactorLiteral(text))
           scale   == Pow10(FactorPlaces(text))
       IN  /\ BigLeq(BigMul(out.val, scale), product)
           /\ BigLess(product, BigMul(BigAdd(out.val, <<1>>), scale))

\* C2 witness: a factor with 18 fractional digits gave a non-zero result with
\* a discarded remainder
C2_Witness ==
  /\ op = "bigxnum2big"
  /\ IsDecimalString(text)
  /\ FactorPlaces(text) = 18
  /\ out.ok
  /\ out.val # Zero
  /\ BigMul(out.val, Pow10(18)) # BigMul(amount, FactorLiteral(text))

\* C3: bigxnum2num weighs chunk i of n (0 = most significant) by
\* 10^(15 * (n - 1 - i)), so in exact arithmetic the sum of chunkValue *
\* weight * factor is amount * factor, and bigxnum2num(amount, 1) is amount.
C3_ChunkWeights ==
  op = "bigxnum2num" => out.val = BigMul(amount, BigIntOf(text))

\* the digits and dots of the raw text, in order
Kept(s) == SelectSeq(s, LAMBDA c : c = "." \/ \E d \in 0..9 : c = CharOf(d))

\* the digits before the first dot of the raw text, leading zeros dropped
WholeDigitsIn(s) ==
  LET w == IntPart(Kept(s))
      z == CHOOSE n \in 0..Len(w) :
             /\ \A i \in 1..n : w[i] = "0"
             /\ n < Len(w) => w[n + 1] # "0"
  IN  SubSeq(w, z + 1, Len(w))

\* the digits after the first dot of the raw text
FracDigitsIn(s) == SelectSeq(FracPart(Kept(s)), LAMBDA c : c # ".")

\* C4: the output of normalizeUnsignedFloat has at most 9 digits before the
\* decimal point and at most 18 after it, and they are the leading 9 integer
\* digits and the leading 18 fractional digits of the input, also when both
\* parts are too long in the same input.
C4_DigitLimits ==
  op = "normalize" =>
    /\ Len(IntPart(out.val)) <= 9
    /\ Len(FracPart(out.val)) <= 18
    /\ WholeDigitsIn(text) # <<>> => IsPrefix(IntPart(out.val), WholeDigitsIn(text))
    /\ IsPrefix(FracPart(out.val), FracDigitsIn(text))

\* C5: for d in 1..18 big2str(amount, d) is an integer part, one '.', and
\* exactly d fractional digits; the integer part is "0" when amount < 10^d and
\* otherwise the amount's leading digits, and the text denotes amount / 10^d.
\* For d = 0 the result is the amount's digits followed by a bare '.'.
C5_FormatShape ==
  op = "big2str" =>
    IF decimals = 0
    THEN out.val = [i \in 1..Len(amount) |-> CharOf(amount[i])] \o <<".">>
    ELSE /\ DotCount(out.val) = 1
         /\ Len(FracPart(out.val)) = decimals
         /\ AllDigits(FracPart(out.val))
         /\ IntPart(out.val) =
              IF Len(amount) <= decimals
              THEN <<"0">>
              ELSE [i \in 1..(Len(amount) - decimals) |-> CharOf(amount[i])]
         /\ BigIntOf(IntPart(out.val) \o FracPart(out.val)) = amount

\* C5 witness: big2str(5, 2) returned "0.05"
C5_Witness ==
  op = "big2str" /\ amount = <<5>> /\ decimals = 2 /\ out.val = <<"0", ".", "0", "5">>

OnlyZerosAndDots(s) == \A i \in 1..Len(s) : s[i] = "0" \/ s[i] = "."

\* C6 as stated: when the kept characters of the input are only zeros and
\* dots, with at least one zero, normalizeUnsignedFloat returns exactly "0".
C6_ZerosAndDotsCollapse ==
  (op = "normalize" /\ OnlyZerosAndDots(Kept(text)) /\ Includes(Kept(text), "0")) =>
    out.val = <<"0">>

\* C6 amended: when the kept characters are only zeros (at least one, no dot)
\* the result is exactly "0"; when they are zeros and dots with at least one
\* of each, the result is "0." followed by the zeros that stood after the
\* first dot, at most 18 of them.
C6_OnlyZerosCollapse ==
  (op = "normalize" /\ OnlyZerosAndDots(Kept(text)) /\ Includes(Kept(text), "0")) =>
    out.val = IF DotCount(Kept(text)) = 0
              THEN <<"0">>
              ELSE <<"0", ".">> \o Slice(FracDigitsIn(text), 0, 18)

\* C6 witness: "0.0" was normalized and came back as "0.0"
C6_Witness ==
  op = "normalize" /\ text = <<"0", ".", "0">> /\ out.val = <<"0", ".", "0">>

\* C7: a non-empty output of normalizeUnsignedFloat has at most one '.', it
\* has one exactly when the input has one, with the input's digits before its
\* first dot in front of it and the digits after it behind, in order; the
\* output never begins with '.', and its integer part is "0" or begins with a
\* non-zero digit.
C7_CanonicalShape ==
  (op = "normalize" /\ out.val # <<>>) =>
    /\ DotCount(out.val) <= 1
    /\ DotCount(out.val) = 1 <=> DotCount(text) >= 1
    /\ out.val[1] # "."
    /\ IntPart(out.val) = <<"0">> \/ IntPart(out.val)[1] # "0"
    /\ IF WholeDigitsIn(text) = <<>>
       THEN IntPart(out.val) = <<"0">>
       ELSE IntPart(out.val) # <<>> /\ IsPrefix(IntPart(out.val), WholeDigitsIn(text))
    /\ IsPrefix(FracPart(out.val), FracDigitsIn(text))

\* C7 witness: an input with leading zeros and two dots gave an output with
\* digits on both sides of its point
C7_Witness ==
  /\ op = "normalize"
  /\ DotCount(text) = 2
  /\ text[1] = "0"
  /\ IntPart(out.val) # <<"0">>
  /\ FracPart(out.val) # <<>>

\* C8 as stated: with strictFinal true the output never ends with a decimal
\* point.
C8_StrictFinalStrips ==
  (op = "normalize" /\ flag) => ~EndsInDot(out.val)

\* C8 amended: normalizeUnsignedFloat takes the raw text only; whatever the
\* value of a strictFinal argument, the output ends with a decimal point
\* exactly when the input has a dot and no digit after its first dot.
C8_TrailingPointKept ==
  op = "normalize" =>
    (EndsInDot(out.val) <=> (DotCount(text) >= 1 /\ FracDigitsIn(text) = <<>>))

\* C8 witness: a call with strictFinal true returned a text ending in '.'
C8_Witness ==
  op = "normalize" /\ flag /\ EndsInDot(out.val) /\ Len(out.val) >= 2 /\ out.val[1] = "1"

HasDigit(s) == \E i \in 1..Len(s) : \E d \in 0..9 : s[i] = CharOf(d)

IsPunctuation(c) == c = "." \/ c = "-"

OnlyPunctuation(s) == Len(s) > 0 /\ \A i \in 1..Len(s) : IsPunctuation(s[i])

\* C9 as stated: normalizeUnsignedFloat never raises, the empty input gives
\* the empty string, and every input of punctuation only gives the empty
\* string.
C9_PunctuationGivesEmpty ==
  op = "normalize" =>
    /\ out.ok
    /\ text = <<>> => out.val = <<>>
    /\ OnlyPunctuation(text) => out.val = <<>>

\* C9 amended: normalizeUnsignedFloat never raises, the empty input gives the
\* empty string, and an input without any digit gives the empty string when
\* it has no dot and "0." when it has one.
C9_NoDigitGivesEmptyOrZeroPoint ==
  op = "normalize" =>
    /\ out.ok
    /\ text = <<>> => out.val = <<>>
    /\ ~HasDigit(text) => out.val = IF DotCount(text) = 0 THEN <<>> ELSE <<"0", ".">>

\* C9 witness: an input of punctuation with a dot in it gave "0."
C9_Witness ==
  op = "normalize" /\ OnlyPunctuation(text) /\ Len(text) >= 2 /\ out.val = <<"0", ".">>

\* a factor that is empty or blank, a lone '.', has more than one decimal
\* point, or has a character that is neither a digit nor a point
IsMalformedFactor(s) ==
  \/ \A i \in 1..Len(s) : s[i] = " "
  \/ s = <<".">>
  \/ DotCount(s) > 1
  \/ \E i \in 1..Len(s) : s[i] # "." /\ ~HasDigit(<<s[i]>>)

\* C10: bigxnum2big ends in an error, and returns no amount, for every
\* malformed factor.
C10_MalformedFactorThrows ==
  (op = "bigxnum2big" /\ IsMalformedFactor(text)) => ~out.ok
\* the first n digits followed by zeros up to the length of the digits
LeadingThenZeros(digits, n) ==
  IF Len(digits) <= n
  THEN digits
  ELSE SubSeq(digits, 1, n) \o [i \in 1..(Len(digits) - n) |-> 0]

\* C11: big2num depends only on the digit count and the leading 15 digits of
\* the amount: an amount of at most 15 digits is returned as it is, and an
\* amount of n > 15 digits gives its leading 15 digits times 10^(n - 15), so
\* two amounts of the same length and the same leading 15 digits give the
\* same result.
C11_LeadingFifteen ==
  op = "big2num" => out.val.abs = LeadingThenZeros(amount, 15)

\* big2num(10^20 + 1) has returned 10^20
C11_Witness ==
  /\ op = "big2num"
  /\ ~negative
  /\ amount = <<1>> \o [i \in 1..19 |-> 0] \o <<1>>
  /\ out.val = Signed(FALSE, <<1>> \o [i \in 1..20 |-> 0])

\* C12: a zero amount gives 0 in big2num and, whatever the factor, in
\* bigxnum2num; and big2num preserves the sign: for every a > 0 of any digit
\* count, big2num(-a) is the negation of big2num(a).
C12_ZeroAndSign ==
  /\ (op = "big2num" /\ amount = Zero) => out.val = Signed(FALSE, Zero)
  /\ (op = "bigxnum2num" /\ amount = Zero) => out.val = Zero
  /\ (op = "big2num" /\ negative) =>
       /\ out.val = Negate(big2num(Signed(FALSE, amount)))
       /\ out.val.neg

\* big2num of a negative amount of more than 15 digits has returned
C12_Witness ==
  /\ op = "big2num"
  /\ negative
  /\ Len(amount) > 15
  /\ out.val.neg
  /\ out.val.abs = big2num(Signed(FALSE, amount)).abs

\* a non-empty string of digits
IsWholeLiteral(s) == s # <<>> /\ AllDigits(s)

\* digits around exactly one decimal point, fewer than 18 of them after it
IsPointFactor(s) ==
  /\ DotCount(s) = 1
  /\ AllDigits(RemoveDots(s))
  /\ Len(FracPart(s)) < 18

\* C13: the result of bigxnum2big does not depend on trailing zeros in the
\* factor's fractional part: for a factor N without a point the calls with
\* "N.", "N.0", "N.000" and "N" all return amount * N, and for a factor f
\* with a decimal point and fewer than 18 fractional digits the call with
\* f + "0" returns what the call with f returns.
C13_TrailingZerosIgnored ==
  op = "bigxnum2big" =>
    /\ IsWholeLiteral(text) =>
         /\ out = Returned(BigMul(amount, BigIntOf(text)))
         /\ \A z \in {0, 1, 3} :
              bigxnum2big(amount, text \o <<".">> \o Repeat("0", z)) = out
    /\ IsPointFactor(text) =>
         /\ out.ok
         /\ bigxnum2big(amount, text \o <<"0">>) = out

\* a factor with a fractional part that changes the product has been used,
\* and a further zero after it gives the same result
C13_Witness ==
  /\ op = "bigxnum2big"
  /\ IsPointFactor(text)
  /\ FracPart(text) # <<>>
  /\ out.ok
  /\ out.val # Zero
  /\ out.val # BigMul(amount, BigIntOf(IntPart(text)))
  /\ bigxnum2big(amount, text \o <<"0">>) = out

\* C14: normalizeUnsignedFloat is idempotent: normalizing a text that
\* normalizeUnsignedFloat returned gives that text again.
C14_Idempotent ==
  op = "renormalize" => out.val = text

\* C15: for one debounced function, under any interleaving of calls and
\* timer expirations: at most one timer is pending at any time; a pending
\* timer is the one the most recent call has set, with that call's
\* arguments, every earlier one having been cancelled; func runs only as
\* the step that follows the most recent call, with that call's arguments;
\* no call made before the wait of the call before it has elapsed comes
\* after a run of func without a call between them, so func runs at most
\* once per run of such calls and never more often than the debounced
\* function was called.
C15_Debounce ==
  /\ Cardinality(timers) <= 1
  /\ \A t \in timers :
       /\ t.id = timeout
       /\ log # <<>>
       /\ log[Len(log)].kind = "call"
       /\ log[Len(log)].args = t.args
  /\ \A i \in 1..Len(log) :
       log[i].kind = "run" =>
         /\ i > 1
         /\ log[i - 1].kind = "call"
         /\ log[i - 1].args = log[i].args
         /\ i < Len(log) => ~log[i + 1].early
  /\ Len(Runs) <= Len(RunsOfCalls)
  /\ Len(Runs) <= Len(Calls)

\* two calls with different arguments, the second before the wait of the
\* first has elapsed, then func has run once with the second call's
\* arguments
C15_Witness ==
  /\ Len(log) = 3
  /\ log[1].kind = "call"
  /\ log[2].kind = "call"
  /\ log[2].early
  /\ log[2].args # log[1].args
  /\ log[3].kind = "run"
  /\ log[3].args = log[2].args
  /\ timers = {}

====
